---------------------------- MODULE Spec2Model ----------------------------
(***************************************************************************)
(* A model of the FactSet chart pipeline: the merge pass that folds newly *)
(* digitized rows into the two stored tables, the chart page selector      *)
(* (extract_charts), the document locator (download_pdfs), the two-tier    *)
(* table storage (read_csv, write_csv), the Digitizer's coordinate         *)
(* matching and the workflow that runs the stages (main).                  *)
(*                                                                         *)
(* The specifications share the variables; each one runs one component     *)
(* and leaves the variables of the others at their initial values:        *)
(*   SpecMerge     the merge pass (process_directory's merge rule)         *)
(*   SpecSelect    extract_charts on one document, over all page kinds     *)
(*   SpecExtract   extract_charts on a list of documents, called twice     *)
(*   SpecDownload  download_pdfs over a range of dates                     *)
(*   SpecStorage   write_csv and read_csv on one table                     *)
(*   SpecMatch     the coordinate matching of one image, run twice         *)
(*   SpecWorkflow  main, invoked repeatedly                                *)
(*   SpecTrip      the names download_pdfs saves, read by extract_charts   *)
(* FairExtract and FairDownload add that the loops run to their end.       *)
(***************************************************************************)
EXTENDS Integers, Sequences, FiniteSets, TLC

VARIABLES
    \* ---- merge pass ----
    stored_main,             \* the persisted EstimatesTable (or absent)
    stored_conf,             \* the persisted ConfidenceTable (or absent)
    existing_df,             \* the table loaded at the start of the last pass
    new_df,                  \* the batch of the last pass
    main_df,                 \* the merged EstimatesTable of the last pass
    existing_confidence_df,  \* the same three for the ConfidenceTable
    new_confidence_df,
    conf_df,
    pass_done,               \* TRUE once a merge pass has run
    \* ---- extract_charts ----
    pdfs,                    \* the input list of documents
    pdf_idx,                 \* how many documents of the list are processed
    png,                     \* the output directory: date_str -> image or NoImage
    extracted_files,         \* the list being returned
    last,                    \* what the last loop iteration did
    run,                     \* 1 or 2: which call of extract_charts is running
    first_run,               \* the result and the directory after the first call
    \* ---- download_pdfs ----
    start_date,
    end_date,
    current,
    found_pdfs,
    requests,                \* every fetch attempt so far, in order
    timeline,                \* every urlopen and every sleep so far, in order
    dl_pc,
    \* ---- csv_storage ----
    CLOUD_STORAGE_ENABLED,   \* the module flag of src.service.cloudflare
    cloud,                   \* the object under the cloud key, or NoFile
    local_file,              \* the file at local_path, or NoFile
    last_write,              \* the last call of write_csv
    last_read,               \* the call of read_csv since the last write_csv
    reported,                \* what every write_csv so far did and returned
    \* ---- coordinate matching ----
    quarter_tokens,          \* the quarter tokens of the image, in OCR order
    value_tokens,            \* the value tokens of the image, in OCR order
    matched,                 \* the quarter token assigned to each value token
    first_matched,           \* the same, by the run before
    match_run,               \* how often the image was matched
    \* ---- workflow ----
    wf_pc,                   \* where main is
    wf_run,                  \* how often main was invoked
    wf_log,                  \* what the stages of every invocation did
    \* ---- from the Locator to the Page Selector ----
    handled                  \* the documents saved and what was read from their names

vars == << stored_main, stored_conf, existing_df, new_df, main_df,
           existing_confidence_df, new_confidence_df, conf_df, pass_done,
           pdfs, pdf_idx, png, extracted_files, last, run, first_run,
           start_date, end_date, current, found_pdfs, requests, timeline,
           dl_pc,
           CLOUD_STORAGE_ENABLED, cloud, local_file, last_write, last_read,
           reported, quarter_tokens, value_tokens, matched, first_matched,
           match_run, wf_pc, wf_run, wf_log, handled >>

mergeVars == << stored_main, stored_conf, existing_df, new_df, main_df,
                existing_confidence_df, new_confidence_df, conf_df, pass_done >>

extractVars == << pdfs, pdf_idx, png, extracted_files, last, run, first_run >>

downloadVars == << start_date, end_date, current, found_pdfs, requests,
                   timeline, dl_pc >>

storageVars == << CLOUD_STORAGE_ENABLED, cloud, local_file, last_write,
                  last_read, reported >>

matchVars == << quarter_tokens, value_tokens, matched, first_matched, match_run >>

workflowVars == << wf_pc, wf_run, wf_log >>

tripVars == << handled >>

(***************************************************************************)
(* Generic helpers.                                                        *)
(***************************************************************************)
Range(s) == { s[i] : i \in 1..Len(s) }

SeqsUpTo(S, n) == UNION { [1..k -> S] : k \in 0..n }

(***************************************************************************)
(* ---------------------------- MERGE PASS ------------------------------- *)
(* Tables are pandas DataFrames: a set of columns (the key column          *)
(* Report_Date among them) and a sequence of rows; a row carries its       *)
(* Report_Date and one cell per other column, NaN where it has no value.   *)
(***************************************************************************)
MaxBatch == 2    \* images processed by one pass

\* the report dates of the model, as YYYYMMDD numbers (their order is the
\* order of the dates)
ReportDates == {20161209, 20161216, 20161223}

NaN == "NaN"

KeyColumns == {"Report_Date"}

\* pd.DataFrame(columns=['Report_Date']): the empty base with the key column only
EmptyTable == [columns |-> KeyColumns, rows |-> << >>]

\* df.empty
IsEmpty(df) == Len(df.rows) = 0

Dates(df) == { df.rows[i].Report_Date : i \in 1..Len(df.rows) }

\* a row widened to a larger column set, the new cells left empty (NaN)
Reindex(row, columns) ==
    [Report_Date |-> row.Report_Date,
     cells |-> [c \in columns \ KeyColumns |->
                   IF c \in DOMAIN row.cells THEN row.cells[c] ELSE NaN]]

\* pd.concat([a, b], ignore_index=True): rows of a then rows of b, over the
\* union of the columns
Concat(a, b) ==
    LET columns == a.columns \cup b.columns
        n == Len(a.rows)
    IN [columns |-> columns,
        rows |-> [i \in 1..(n + Len(b.rows)) |->
                     IF i <= n THEN Reindex(a.rows[i], columns)
                               ELSE Reindex(b.rows[i - n], columns)]]

\* the rows from position i on that have no earlier row of the same date
RECURSIVE KeepFirstRows(_, _)
KeepFirstRows(rows, i) ==
    IF i > Len(rows) THEN << >>
    ELSE (IF \E j \in 1..(i - 1) : rows[j].Report_Date = rows[i].Report_Date
          THEN << >> ELSE << rows[i] >>) \o KeepFirstRows(rows, i + 1)

\* a mutant: keep='first'
DropDuplicatesKeepFirst(df) ==
    [columns |-> df.columns, rows |-> KeepFirstRows(df.rows, 1)]

\* a mutant: no deduplication at all
DropDuplicatesNone(df) == df

\* the rows from position i on that have no later row of the same date
RECURSIVE KeepLastRows(_, _)
KeepLastRows(rows, i) ==
    IF i > Len(rows) THEN << >>
    ELSE (IF \E j \in (i + 1)..Len(rows) :
                 rows[j].Report_Date = rows[i].Report_Date
          THEN << >> ELSE << rows[i] >>) \o KeepLastRows(rows, i + 1)

\* .drop_duplicates(subset=['Report_Date'], keep='last')
DropDuplicatesKeepLast(df) ==
    [columns |-> df.columns, rows |-> KeepLastRows(df.rows, 1)]

\* insertion of one row into an ascending sequence, after the rows with an
\* equal key (a stable sort)
RECURSIVE InsertRow(_, _)
InsertRow(sorted, row) ==
    IF sorted = << >> THEN << row >>
    ELSE IF row.Report_Date < Head(sorted).Report_Date
         THEN << row >> \o sorted
         ELSE << Head(sorted) >> \o InsertRow(Tail(sorted), row)

RECURSIVE SortRows(_)
SortRows(rows) ==
    IF rows = << >> THEN << >>
    ELSE InsertRow(SortRows(SubSeq(rows, 1, Len(rows) - 1)), rows[Len(rows)])

\* .sort_values('Report_Date').reset_index(drop=True)
SortValues(df) == [columns |-> df.columns, rows |-> SortRows(df.rows)]

\* a mutant: the new rows overwrite the table instead of being appended
MergeOverwrite(existing, new) == new

\* a mutant: the empty branch answers the (empty) existing table
MergeEmptyKeepsExisting(existing, new) ==
    IF IsEmpty(existing)
    THEN existing
    ELSE SortValues(DropDuplicatesKeepLast(Concat(existing, new)))

\* the merge rule ("same logic as processor"): an empty existing table is
\* replaced by a copy of the batch, anything else is concatenated,
\* deduplicated and sorted
Merge(existing, new) ==
    IF IsEmpty(existing)
    THEN new
    ELSE SortValues(DropDuplicatesKeepLast(Concat(existing, new)))

(***************************************************************************)
(* The pass itself.  process_directory digitizes every image, pivots its   *)
(* observations into one row per report date for each of the two tables,   *)
(* merges the accumulated rows into the loaded tables and persists both.    *)
(***************************************************************************)
\* what the digitizer and the pivot can yield for one image: the quarter
\* cells of the EstimatesTable row and the cells of the ConfidenceTable row
ProcessImageResults ==
    { [eps  |-> [q \in {"Q1'14"} |-> "27.85"],
       conf |-> [q \in {"Confidence"} |-> "85.5"]],
      [eps  |-> [q \in {"Q1'14", "Q2'14"} |->
                    IF q = "Q1'14" THEN "28.00" ELSE "30.00"],
       conf |-> [q \in {"Q2'14", "Confidence"} |->
                    IF q = "Q2'14" THEN "0.85" ELSE "87.0"]] }

\* an image of the directory: its report date (images are named by the date,
\* so no two images of a directory share one) and what digitizing it yields;
\* a batch is the images of one pass, in any order
Images == [report_date : ReportDates, result : ProcessImageResults]

Batches ==
    { b \in SeqsUpTo(Images, MaxBatch) :
          \A i, j \in 1..Len(b) : b[i].report_date = b[j].report_date => i = j }

\* pd.DataFrame(rows): the accumulated rows as one table over the union of
\* their columns
DataFrame(rows) ==
    LET columns == KeyColumns \cup
                   UNION { DOMAIN rows[i].cells : i \in 1..Len(rows) }
    IN [columns |-> columns,
        rows |-> [i \in 1..Len(rows) |-> Reindex(rows[i], columns)]]

MainRows(images) ==
    [i \in 1..Len(images) |->
        [Report_Date |-> images[i].report_date, cells |-> images[i].result.eps]]

ConfidenceRows(images) ==
    [i \in 1..Len(images) |->
        [Report_Date |-> images[i].report_date, cells |-> images[i].result.conf]]

\* a stored table: absent (cloud miss and local miss) or present
Absent == [present |-> FALSE, df |-> EmptyTable]

Stored(df) == [present |-> TRUE, df |-> df]

\* the table a pass starts from: the stored one, or the empty base
LoadTable(stored) == IF stored.present THEN stored.df ELSE EmptyTable

\* a mutant: the ConfidenceTable is overwritten by the batch, not merged
MergeConfidenceOverwrite(existing, new) == new

\* the rule the pass applies to the ConfidenceTable: the same merge
MergeConfidence(existing, new) == Merge(existing, new)

ProcessDirectory(images) ==
    /\ existing_df' = LoadTable(stored_main)
    /\ existing_confidence_df' = LoadTable(stored_conf)
    /\ new_df' = DataFrame(MainRows(images))
    /\ new_confidence_df' = DataFrame(ConfidenceRows(images))
    /\ main_df' = Merge(existing_df', new_df')
    /\ conf_df' = MergeConfidence(existing_confidence_df', new_confidence_df')
    /\ stored_main' = Stored(main_df')
    /\ stored_conf' = Stored(conf_df')
    /\ pass_done' = TRUE
    /\ UNCHANGED << extractVars, downloadVars, storageVars,
                    matchVars, workflowVars, tripVars >>

MergeInit ==
    /\ stored_main = Absent
    /\ stored_conf = Absent
    /\ existing_df = EmptyTable
    /\ new_df = EmptyTable
    /\ main_df = EmptyTable
    /\ existing_confidence_df = EmptyTable
    /\ new_confidence_df = EmptyTable
    /\ conf_df = EmptyTable
    /\ pass_done = FALSE

(***************************************************************************)
(* -------------------------- extract_charts ----------------------------- *)
(* A document is a file name (the parts of its stem between underscores),  *)
(* whether the file exists, where reading it raises ("no": nowhere,        *)
(* "open": in pdfplumber.open, "rasterize": in to_image or save), and its  *)
(* pages.                                                                  *)
(* A page is its words; a word is its text and its vertical offset (top).  *)
(* Of a word's text the code asks two things only, so three texts suffice: *)
(*   "title"      the word that begins an occurrence of one of KEYWORDS    *)
(*                (page text contains the keyword; the word contains the   *)
(*                keyword's first word, Bottom-Up / Bottom-up)             *)
(*   "first_word" a word that contains Bottom-Up / Bottom-up without being *)
(*                the beginning of a keyword                               *)
(*   "other"      any other word                                           *)
(***************************************************************************)
MaxPages == 2    \* pages of one document
MaxDocs == 2     \* documents of one input list

BottomThreshold == 700

Word(text, top) == [text |-> text, top |-> top]

\* the pages of the model
Blank == << >>
StrayOnly720 == << Word("other", 650), Word("first_word", 720) >>
Title650 == << Word("title", 650) >>
Title700 == << Word("title", 700) >>
Title720 == << Word("other", 650), Word("title", 720) >>
Title650Stray720 == << Word("title", 650), Word("first_word", 720) >>

PageKinds == { Blank, StrayOnly720, Title650, Title700, Title720,
               Title650Stray720 }

BasicPageKinds == { Blank, Title650 }

\* the stems of the model, split at '_'
Stems == { << "EarningsInsight", "20161209", "120916" >>,
           << "EarningsInsight", "20161209", "12092016" >>,
           << "EarningsInsight", "20161216", "121616" >> }

BadStems == { << "report" >>, << "EarningsInsight", "2016-12-09" >> }

\* the strings datetime.strptime(date_str, '%Y%m%d') accepts, among those of
\* the model
ValidDateStrs == { "20161209", "20161216" }

Document(stem, exists, corrupt, pages) ==
    [stem |-> stem, exists |-> exists, corrupt |-> corrupt, pages |-> pages]

\* the documents over a set of pages: a missing file, the unparseable names,
\* the files that cannot be opened, the files whose chart page cannot be
\* rasterized and the readable ones
Documents(kinds) ==
    { Document(<< "EarningsInsight", "20161209", "120916" >>, FALSE, "no", << >>) }
    \cup { Document(st, TRUE, "no", << Title650 >>) : st \in BadStems }
    \cup { Document(st, TRUE, "open", << >>) : st \in Stems }
    \cup { Document(st, TRUE, "rasterize", << Title650 >>) : st \in Stems }
    \cup { Document(st, TRUE, "no", pages) :
               st \in Stems, pages \in SeqsUpTo(kinds, MaxPages) \ { << >> } }

\* an image file: the document and the (1-based) page it was rasterized from
NoImage == [stem |-> << >>, page |-> 0]

PriorImage == [stem |-> << "earlier run" >>, page |-> 1]

Image(stem, target_page_num) == [stem |-> stem, page |-> target_page_num]

\* text and any(kw in text for kw in KEYWORDS)
HasKeyword(page) == \E i \in 1..Len(page) : page[i].text = "title"

\* any(kw.split()[0] in word['text'] for kw in KEYWORDS)
HasFirstWord(word) == word.text \in { "title", "first_word" }

\* the loop over page.extract_words(): some word with the first word of a
\* keyword lies below the threshold
KeywordAtBottom(page) ==
    \E i \in 1..Len(page) :
        HasFirstWord(page[i]) /\ page[i].top > BottomThreshold

\* the 1-based number of the page rasterized for a match on (0-based) page_num
TargetPageNum(pages, page_num) ==
    IF KeywordAtBottom(pages[page_num + 1]) /\ page_num + 1 < Len(pages)
    THEN page_num + 2
    ELSE page_num + 1

\* a mutant: no break after the first match
RECURSIVE ScanPagesNoBreak(_, _)
ScanPagesNoBreak(pages, page_num) ==
    IF page_num >= Len(pages)
    THEN [inspected |-> << >>, matched |-> << >>, rasterized |-> << >>]
    ELSE LET rest == ScanPagesNoBreak(pages, page_num + 1)
         IN IF HasKeyword(pages[page_num + 1])
            THEN [inspected |-> << page_num >> \o rest.inspected,
                  matched |-> << page_num >> \o rest.matched,
                  rasterized |-> << TargetPageNum(pages, page_num) >>
                                     \o rest.rasterized]
            ELSE [inspected |-> << page_num >> \o rest.inspected,
                  matched |-> rest.matched,
                  rasterized |-> rest.rasterized]

\* the loop over pdf.pages from page_num on: the pages whose text is
\* extracted, the pages that matched and the pages rasterized, in order
RECURSIVE ScanPages(_, _)
ScanPages(pages, page_num) ==
    IF page_num >= Len(pages)
    THEN [inspected |-> << >>, matched |-> << >>, rasterized |-> << >>]
    ELSE IF HasKeyword(pages[page_num + 1])
         THEN [inspected |-> << page_num >>,
               matched |-> << page_num >>,
               rasterized |-> << TargetPageNum(pages, page_num) >>]
         ELSE LET rest == ScanPages(pages, page_num + 1)
              IN [inspected |-> << page_num >> \o rest.inspected,
                  matched |-> rest.matched,
                  rasterized |-> rest.rasterized]

\* pdf_path.stem.split('_')[1] raises IndexError
IndexError(stem) == Len(stem) < 2

\* datetime.strptime(date_str, '%Y%m%d') raises ValueError
ValueError(date_str) == date_str \notin ValidDateStrs

\* outpath / f"{date_str}.png"
OutputPath(date_str) == << date_str, ".png" >>

\* a mutant: the cache is never hit
OutputPathExistsNever(dir, date_str) == FALSE

\* output_path.exists()
OutputPathExists(dir, date_str) == dir[date_str] /= NoImage

\* what one iteration of the loop over pdfs did
Outcome(kind, opened, scan) ==
    [kind |-> kind, opened |-> opened, inspected |-> scan.inspected,
     matched |-> scan.matched, rasterized |-> scan.rasterized]

NoScan == [inspected |-> << >>, matched |-> << >>, rasterized |-> << >>]

NoOutcome == Outcome("none", FALSE, NoScan)

\* what one iteration does with pdf_path, dir being the output directory and
\* scan the result of the loop over its pages
Kind(pdf_path, dir, scan) ==
    IF ~pdf_path.exists THEN "file not found"
    ELSE IF IndexError(pdf_path.stem) \/ ValueError(pdf_path.stem[2])
    THEN "cannot extract date"
    ELSE IF OutputPathExists(dir, pdf_path.stem[2]) THEN "already exists"
    ELSE IF pdf_path.corrupt = "open" THEN "error"
    ELSE IF scan.rasterized /= << >> /\ pdf_path.corrupt = "rasterize" THEN "error"
    ELSE IF scan.rasterized /= << >> THEN "extracted"
    ELSE "no chart page"

\* a mutant: the path is appended after the page loop, whatever it found
AppendedAlways(kind, date_str) ==
    IF kind \in { "already exists", "extracted", "no chart page", "error" }
    THEN << OutputPath(date_str) >>
    ELSE << >>

\* extracted_files.append(output_path): the paths one iteration appends
Appended(kind, date_str) ==
    IF kind \in { "already exists", "extracted" }
    THEN << OutputPath(date_str) >>
    ELSE << >>

\* one iteration of "for pdf_path in pdfs"
ProcessPdf ==
    /\ pdf_idx < Len(pdfs)
    /\ LET pdf_path == pdfs[pdf_idx + 1]
           date_str == pdf_path.stem[2]
           scan == ScanPages(pdf_path.pages, 0)
           kind == Kind(pdf_path, png, scan)
       IN /\ last' =
                 IF kind \in { "file not found", "cannot extract date",
                                "already exists" }
                 THEN Outcome(kind, FALSE, NoScan)
                 ELSE IF kind = "error" /\ pdf_path.corrupt = "open"
                 THEN Outcome(kind, TRUE, NoScan)
                 ELSE IF kind = "error"
                 THEN Outcome(kind, TRUE, [scan EXCEPT !.rasterized = << >>])
                 ELSE Outcome(kind, TRUE, scan)
          /\ png' =
                 IF kind = "extracted"
                 THEN [png EXCEPT ![date_str] =
                          Image(pdf_path.stem,
                                scan.rasterized[Len(scan.rasterized)])]
                 ELSE png
          /\ extracted_files' = extracted_files \o Appended(kind, date_str)
    /\ pdf_idx' = pdf_idx + 1
    /\ UNCHANGED << pdfs, run, first_run >>
    /\ UNCHANGED << mergeVars, downloadVars, storageVars,
                    matchVars, workflowVars, tripVars >>

\* extract_charts returns; it is called a second time on the same documents
\* and the same output directory
CallAgain ==
    /\ run = 1
    /\ pdf_idx = Len(pdfs)
    /\ first_run' = [extracted_files |-> extracted_files, png |-> png]
    /\ run' = 2
    /\ pdf_idx' = 0
    /\ extracted_files' = << >>
    /\ last' = NoOutcome
    /\ UNCHANGED << pdfs, png >>
    /\ UNCHANGED << mergeVars, downloadVars, storageVars,
                    matchVars, workflowVars, tripVars >>

NoFirstRun == [extracted_files |-> << >>, png |-> [d \in ValidDateStrs |-> NoImage]]

\* the output directory before the first call: empty, or holding images of
\* an earlier run
ExtractInit(documents) ==
    /\ pdfs \in documents
    /\ pdf_idx = 0
    /\ png \in [ValidDateStrs -> { NoImage, PriorImage }]
    /\ extracted_files = << >>
    /\ last = NoOutcome
    /\ run = 1
    /\ first_run = NoFirstRun

RECURSIVE TotalPages(_)
TotalPages(docs) ==
    IF docs = << >> THEN 0 ELSE Len(Head(docs).pages) + TotalPages(Tail(docs))

\* one document, over all the pages of the model
SingleDocumentLists == { << d >> : d \in Documents(PageKinds) }

\* lists of documents over the basic pages, at most MaxPages pages together
\* (a file name listed twice is the same file both times)
DocumentLists ==
    { l \in SeqsUpTo(Documents(BasicPageKinds), MaxDocs) :
          /\ TotalPages(l) <= MaxPages
          /\ \A i, j \in 1..Len(l) : l[i].stem = l[j].stem => l[i] = l[j] }

\* the other components at rest
ExtractIdle ==
    /\ pdfs = << >>
    /\ pdf_idx = 0
    /\ png = NoFirstRun.png
    /\ extracted_files = << >>
    /\ last = NoOutcome
    /\ run = 1
    /\ first_run = NoFirstRun

MergeIdle == MergeInit

(***************************************************************************)
(* --------------------------- download_pdfs ----------------------------- *)
(* Dates are calendar dates (year, month, day); the server's answer to a   *)
(* fetch is chosen anew at every attempt.                                  *)
(***************************************************************************)
MaxDays == 3     \* the dates of the model: WindowStart and MaxDays days after it

Date(y, m, d) == [y |-> y, m |-> m, d |-> d]

\* datetime(2016, 1, 1)
MinDate == Date(2016, 1, 1)

WindowStart == Date(2015, 12, 30)

IsLeap(y) == (y % 4 = 0 /\ y % 100 /= 0) \/ y % 400 = 0

DaysInMonth(y, m) ==
    IF m = 2 THEN (IF IsLeap(y) THEN 29 ELSE 28)
    ELSE IF m \in {4, 6, 9, 11} THEN 30 ELSE 31

\* date + timedelta(days=1)
NextDay(t) ==
    IF t.d < DaysInMonth(t.y, t.m) THEN Date(t.y, t.m, t.d + 1)
    ELSE IF t.m < 12 THEN Date(t.y, t.m + 1, 1)
    ELSE Date(t.y + 1, 1, 1)

\* date - timedelta(days=1)
PrevDay(t) ==
    IF t.d > 1 THEN Date(t.y, t.m, t.d - 1)
    ELSE IF t.m > 1 THEN Date(t.y, t.m - 1, DaysInMonth(t.y, t.m - 1))
    ELSE Date(t.y - 1, 12, 31)

RECURSIVE DaysAfter(_, _)
DaysAfter(t, k) == IF k = 0 THEN t ELSE NextDay(DaysAfter(t, k - 1))

ModelDates == { DaysAfter(WindowStart, k) : k \in 0..MaxDays }

\* a < b on datetimes
Before(a, b) ==
    \/ a.y < b.y
    \/ a.y = b.y /\ a.m < b.m
    \/ a.y = b.y /\ a.m = b.m /\ a.d < b.d

TwoDigits(n) == << n \div 10, n % 10 >>

FourDigits(n) == << n \div 1000, (n \div 100) % 10, (n \div 10) % 10, n % 10 >>

\* date.strftime(format), as the digits printed
Strftime(t, format) ==
    CASE format = "%m%d%y" ->
             TwoDigits(t.m) \o TwoDigits(t.d) \o TwoDigits(t.y % 100)
      [] format = "%m%d%Y" ->
             TwoDigits(t.m) \o TwoDigits(t.d) \o FourDigits(t.y)
      [] format = "%Y%m%d" ->
             FourDigits(t.y) \o TwoDigits(t.m) \o TwoDigits(t.d)

\* formats = [current.strftime("%m%d%y"), current.strftime("%m%d%Y")]
Formats(t) == << Strftime(t, "%m%d%y"), Strftime(t, "%m%d%Y") >>

\* what the body of the try can do: urlopen answers with a status (urllib
\* raises HTTPError for a status outside 2xx) or fails with a transport error
\* or a timeout, and after a status 200 reading or saving the content can fail
Responses ==
    { [exception |-> "none", status |-> 200],
      [exception |-> "OSError", status |-> 200],
      [exception |-> "none", status |-> 204],
      [exception |-> "HTTPError", status |-> 404],
      [exception |-> "URLError", status |-> 0],
      [exception |-> "TimeoutError", status |-> 0] }

\* response.status == 200 and no exception before the append
Downloaded(response) == response.exception = "none" /\ response.status = 200

\* f"{BASE_URL}EarningsInsight_{fmt}.pdf"
Url(fmt) == << "EarningsInsight", fmt >>

Attempt(t, fmt, response) == [date |-> t, fmt |-> fmt, response |-> response]

\* a mutant: no break after a download
RECURSIVE TryFormatsNoBreak(_, _, _, _)
TryFormatsNoBreak(t, formats, responses, i) ==
    IF i > Len(formats) THEN << >>
    ELSE << Attempt(t, formats[i], responses[i]) >>
             \o TryFormatsNoBreak(t, formats, responses, i + 1)

\* a mutant: a failed attempt ends the loop over the formats
TryFormatsStopOnError(t, formats, responses, i) ==
    IF i > Len(formats) THEN << >>
    ELSE << Attempt(t, formats[i], responses[i]) >>

\* "for fmt in formats" from the i-th format on: the attempts made
RECURSIVE TryFormats(_, _, _, _)
TryFormats(t, formats, responses, i) ==
    IF i > Len(formats) THEN << >>
    ELSE IF Downloaded(responses[i])
         THEN << Attempt(t, formats[i], responses[i]) >>
         ELSE << Attempt(t, formats[i], responses[i]) >>
                  \o TryFormats(t, formats, responses, i + 1)

\* the manifest entry of a download
Entry(attempt) ==
    [date |-> attempt.date,
     format |-> attempt.fmt,
     url |-> Url(attempt.fmt),
     filename |-> << "EarningsInsight", Strftime(attempt.date, "%Y%m%d"),
                     attempt.fmt >>]

\* the entries of the attempts that downloaded
RECURSIVE Entries(_)
Entries(attempts) ==
    IF attempts = << >> THEN << >>
    ELSE (IF Downloaded(Head(attempts).response)
          THEN << Entry(Head(attempts)) >> ELSE << >>)
             \o Entries(Tail(attempts))

\* what the attempts of one date and the end of its iteration do, in order:
\* one urlopen per attempt, then time.sleep(rate_limit)
Events(attempts) == [i \in 1..Len(attempts) |-> "urlopen"] \o << "sleep" >>

\* a mutant: start_date is not raised to min_date
CallNoClamp ==
    /\ dl_pc = "call"
    /\ current' = end_date
    /\ found_pdfs' = << >>
    /\ dl_pc' = "loop"
    /\ UNCHANGED << start_date, end_date, requests, timeline >>
    /\ UNCHANGED << mergeVars, extractVars, storageVars,
                    matchVars, workflowVars, tripVars >>

\* download_pdfs is called: start_date is raised to min_date
Call ==
    /\ dl_pc = "call"
    /\ start_date' = IF Before(start_date, MinDate) THEN MinDate ELSE start_date
    /\ current' = end_date
    /\ found_pdfs' = << >>
    /\ dl_pc' = "loop"
    /\ UNCHANGED << end_date, requests, timeline >>
    /\ UNCHANGED << mergeVars, extractVars, storageVars,
                    matchVars, workflowVars, tripVars >>

\* one iteration of "while current >= start_date"
ProbeDate ==
    /\ dl_pc = "loop"
    /\ ~Before(current, start_date)
    /\ \E responses \in [1..2 -> Responses] :
         LET attempts == TryFormats(current, Formats(current), responses, 1)
         IN /\ requests' = requests \o attempts
            /\ timeline' = timeline \o Events(attempts)
            /\ found_pdfs' = found_pdfs \o Entries(attempts)
    /\ current' = PrevDay(current)
    /\ UNCHANGED << start_date, end_date, dl_pc >>
    /\ UNCHANGED << mergeVars, extractVars, storageVars,
                    matchVars, workflowVars, tripVars >>

\* the loop ends and found_pdfs is returned
Return ==
    /\ dl_pc = "loop"
    /\ Before(current, start_date)
    /\ dl_pc' = "done"
    /\ UNCHANGED << start_date, end_date, current, found_pdfs, requests,
                    timeline >>
    /\ UNCHANGED << mergeVars, extractVars, storageVars,
                    matchVars, workflowVars, tripVars >>

DownloadInit ==
    /\ start_date \in ModelDates
    /\ end_date \in ModelDates
    /\ current = end_date
    /\ found_pdfs = << >>
    /\ requests = << >>
    /\ timeline = << >>
    /\ dl_pc = "call"

DownloadIdle ==
    /\ start_date = MinDate
    /\ end_date = MinDate
    /\ current = MinDate
    /\ found_pdfs = << >>
    /\ requests = << >>
    /\ timeline = << >>
    /\ dl_pc = "idle"

(***************************************************************************)
(* ---------------------------- csv_storage ------------------------------ *)
(* One table is stored under one cloud key and one local path.  The cloud  *)
(* tier answers a read with a table or with None (no object, or a failed   *)
(* read) and a write with True or False; the local tier is a file that is  *)
(* missing, holds a CSV text, or holds something pd.read_csv cannot parse. *)
(***************************************************************************)
\* the tables written and stored in the model
StorageTables ==
    { EmptyTable }
    \cup { DataFrame(MainRows(<< [report_date |-> 20161209, result |-> r] >>)) :
               r \in ProcessImageResults }

NoFile == [kind |-> "missing", header |-> {}, lines |-> << >>]

Unparseable == [kind |-> "unparseable", header |-> {}, lines |-> << >>]

\* a cell as printed by to_csv: an empty field for NaN
Field(cell) == IF cell = NaN THEN "" ELSE cell

\* a field as parsed by pd.read_csv: NaN for an empty field
Cell(field) == IF field = "" THEN NaN ELSE field

\* df.to_csv(local_path, index=False): the header and one line per row
ToCsv(df) ==
    [kind |-> "csv",
     header |-> df.columns,
     lines |-> [i \in 1..Len(df.rows) |->
                   [Report_Date |-> df.rows[i].Report_Date,
                    fields |-> [c \in DOMAIN df.rows[i].cells |->
                                   Field(df.rows[i].cells[c])]]]]

CsvFiles == { ToCsv(df) : df \in StorageTables }

\* the value of a call: a table, or None
None == [is_none |-> TRUE, df |-> EmptyTable]

Some(df) == [is_none |-> FALSE, df |-> df]

\* the outcome of a call: it raised, or it returned a value
Raised == [raised |-> TRUE, value |-> None]

Returned(value) == [raised |-> FALSE, value |-> value]

\* pd.read_csv(local_path)
PdReadCsv(file) ==
    IF file.kind = "csv"
    THEN Returned(Some([columns |-> file.header,
                        rows |-> [i \in 1..Len(file.lines) |->
                                     [Report_Date |-> file.lines[i].Report_Date,
                                      cells |-> [c \in DOMAIN file.lines[i].fields |->
                                                    Cell(file.lines[i].fields[c])]]]]))
    ELSE Raised

\* local_path.exists()
Exists(file) == file.kind /= "missing"

\* read_csv_from_cloud(cloud_key): the table of the object, or None when
\* there is no object or the read fails
ReadCsvFromCloud(object, read_ok) ==
    IF object.kind = "csv" /\ read_ok THEN PdReadCsv(object).value ELSE None

\* a mutant: a parse error of the local file propagates
ReadCsvNoExcept(enabled, cloud_df, file) ==
    IF enabled /\ ~cloud_df.is_none THEN Returned(cloud_df)
    ELSE IF Exists(file) THEN PdReadCsv(file)
    ELSE Returned(None)

\* read_csv(cloud_path, local_path), cloud_df being what read_csv_from_cloud
\* answers if it is asked
ReadCsv(enabled, cloud_df, file) ==
    IF enabled /\ ~cloud_df.is_none THEN Returned(cloud_df)
    ELSE IF Exists(file)
         THEN (IF PdReadCsv(file).raised THEN Returned(None) ELSE PdReadCsv(file))
         ELSE Returned(None)

\* what the local write can do: write the file, fail before touching it, or
\* fail after truncating it
LocalOutcomes == { "written", "failed", "truncated" }

\* a mutant: the local tier is a fallback, written only when the cloud write
\* did not succeed
WriteAttemptsFallback(enabled, cloud_ok) ==
    IF enabled /\ cloud_ok THEN << "cloud" >>
    ELSE IF enabled THEN << "cloud", "local" >> ELSE << "local" >>

\* the tiers write_csv attempts to write, in order
WriteAttempts(enabled, cloud_ok) ==
    IF enabled THEN << "cloud", "local" >> ELSE << "local" >>

\* the value write_csv returns
WriteSuccess(enabled, cloud_ok, local_ok) == (enabled /\ cloud_ok) \/ local_ok

NoWrite ==
    [called |-> FALSE, df |-> EmptyTable, attempts |-> << >>,
     cloud_ok |-> FALSE, local_ok |-> FALSE, returned |-> FALSE]

NoRead ==
    [called |-> FALSE, asked_cloud |-> FALSE, cloud_df |-> None,
     raised |-> FALSE, value |-> None]

\* write_csv(df, cloud_path, local_path)
WriteCsv(df, cloud_ok, local_outcome) ==
    LET attempts == WriteAttempts(CLOUD_STORAGE_ENABLED, cloud_ok)
        cloud_written == "cloud" \in Range(attempts) /\ cloud_ok
        local_written == "local" \in Range(attempts) /\ local_outcome = "written"
        returned == WriteSuccess(CLOUD_STORAGE_ENABLED, cloud_ok, local_written)
    IN /\ cloud' = IF cloud_written THEN ToCsv(df) ELSE cloud
       /\ local_file' =
              IF "local" \notin Range(attempts) \/ local_outcome = "failed"
              THEN local_file
              ELSE IF local_outcome = "written" THEN ToCsv(df) ELSE Unparseable
       /\ last_write' = [called |-> TRUE, df |-> df, attempts |-> attempts,
                         cloud_ok |-> cloud_written, local_ok |-> local_written,
                         returned |-> returned]
       /\ last_read' = NoRead
       /\ reported' = reported \cup
              { [cloud_ok |-> cloud_written, local_ok |-> local_written,
                 returned |-> returned] }
       /\ UNCHANGED CLOUD_STORAGE_ENABLED
       /\ UNCHANGED << mergeVars, extractVars, downloadVars,
                    matchVars, workflowVars, tripVars >>

\* read_csv(cloud_path, local_path) with the same key and path
ReadCsvCall(read_ok) ==
    LET cloud_df == ReadCsvFromCloud(cloud, read_ok)
        outcome == ReadCsv(CLOUD_STORAGE_ENABLED, cloud_df, local_file)
    IN /\ last_read' = [called |-> TRUE,
                        asked_cloud |-> CLOUD_STORAGE_ENABLED,
                        cloud_df |-> IF CLOUD_STORAGE_ENABLED THEN cloud_df ELSE None,
                        raised |-> outcome.raised,
                        value |-> outcome.value]
       /\ UNCHANGED << CLOUD_STORAGE_ENABLED, cloud, local_file, last_write,
                       reported >>
       /\ UNCHANGED << mergeVars, extractVars, downloadVars,
                    matchVars, workflowVars, tripVars >>

\* the flag is set at import; either tier may hold an older copy
StorageInit ==
    /\ CLOUD_STORAGE_ENABLED \in BOOLEAN
    /\ cloud \in { NoFile } \cup CsvFiles
    /\ local_file \in { NoFile, Unparseable } \cup CsvFiles
    /\ last_write = NoWrite
    /\ last_read = NoRead
    /\ reported = {}

StorageIdle ==
    /\ CLOUD_STORAGE_ENABLED = FALSE
    /\ cloud = NoFile
    /\ local_file = NoFile
    /\ last_write = NoWrite
    /\ last_read = NoRead
    /\ reported = {}

(***************************************************************************)
(* ----------------------- coordinate matching --------------------------- *)
(* The Digitizer's step 4.  A token is a recognized text with the left and *)
(* right edge of its bounding polygon; its x-center is the middle of the   *)
(* two, kept doubled (left + right) so that it stays an integer.           *)
(***************************************************************************)
MaxQuarters == 2   \* quarter tokens of one image
MaxValues == 2     \* value tokens of one image

Token(text, left, right) == [text |-> text, left |-> left, right |-> right]

\* a token 20 wide centered at x
Centered(text, x) == Token(text, x - 10, x + 10)

QuarterLabels == { "Q1'24", "Q2'24", "Q3'24" }

QuarterTokens == { Centered(q, x) : q \in QuarterLabels, x \in { 98, 102, 202 } }

ValueTokens == { Centered("27.85", 100), Centered("30.00", 200) }

\* the quarter tokens of an image, in the order the OCR returns them: no
\* label and no position twice
QuarterTokenLists ==
    { l \in SeqsUpTo(QuarterTokens, MaxQuarters) :
          \A i, j \in 1..Len(l) :
              (l[i].text = l[j].text \/ l[i].left = l[j].left) => i = j }

ValueTokenLists ==
    { l \in SeqsUpTo(ValueTokens, MaxValues) :
          \A i, j \in 1..Len(l) : l[i] = l[j] => i = j }

\* twice the x-center of a token
XCenter2(token) == token.left + token.right

Abs(n) == IF n < 0 THEN -n ELSE n

\* twice the horizontal distance of the centers of two tokens
XDistance2(a, b) == Abs(XCenter2(a) - XCenter2(b))

NoToken == Token("", 0, 0)

\* a mutant: the signed difference of the centers is compared, not the
\* distance
RECURSIVE NearestQuarterSigned(_, _, _, _)
NearestQuarterSigned(value, quarters, i, best) ==
    IF i > Len(quarters) THEN best
    ELSE LET q == quarters[i]
             better == \/ best = NoToken
                       \/ XCenter2(q) - XCenter2(value)
                              < XCenter2(best) - XCenter2(value)
         IN NearestQuarterSigned(value, quarters, i + 1,
                                 IF better THEN q ELSE best)

\* the quarter token nearest to a value token: the tokens from the i-th on
\* are compared with the best so far, a nearer one replaces it, and of two
\* equally near ones the leftmost is kept
RECURSIVE NearestQuarter(_, _, _, _)
NearestQuarter(value, quarters, i, best) ==
    IF i > Len(quarters) THEN best
    ELSE LET q == quarters[i]
             better == \/ best = NoToken
                       \/ XDistance2(value, q) < XDistance2(value, best)
                       \/ /\ XDistance2(value, q) = XDistance2(value, best)
                          /\ XCenter2(q) < XCenter2(best)
         IN NearestQuarter(value, quarters, i + 1, IF better THEN q ELSE best)

\* the assignment of every value token of an image
MatchCoordinates(values, quarters) ==
    [i \in 1..Len(values) |-> NearestQuarter(values[i], quarters, 1, NoToken)]

\* one run of the matching on the image; the result of the run before is kept
MatchImage ==
    /\ match_run < 2
    /\ first_matched' = matched
    /\ matched' = MatchCoordinates(value_tokens, quarter_tokens)
    /\ match_run' = match_run + 1
    /\ UNCHANGED << quarter_tokens, value_tokens >>
    /\ UNCHANGED << mergeVars, extractVars, downloadVars, storageVars,
                    workflowVars, tripVars >>

MatchInit ==
    /\ quarter_tokens \in QuarterTokenLists
    /\ value_tokens \in ValueTokenLists
    /\ matched = << >>
    /\ first_matched = << >>
    /\ match_run = 0

MatchIdle ==
    /\ quarter_tokens = << >>
    /\ value_tokens = << >>
    /\ matched = << >>
    /\ first_matched = << >>
    /\ match_run = 0

(***************************************************************************)
(* ------------------------------ workflow ------------------------------- *)
(* main of actions/workflow.py, run once per scheduled invocation.  A      *)
(* stage is a call that returns, raises an Exception, or raises something  *)
(* "except Exception" does not catch (SystemExit, KeyboardInterrupt).      *)
(***************************************************************************)
MaxRuns == 3     \* invocations of main

Stages == << "download", "extract", "process" >>

StageOutcomes == { "returns", "Exception", "BaseException" }

Event(n, stage, what) == [run |-> n, stage |-> stage, what |-> what]

\* what one stage writes to the log: its start, and its completion or the
\* failure message of its except clause
StageEvents(n, stage, outcome) ==
    << Event(n, stage, "start") >>
        \o (IF outcome = "returns" THEN << Event(n, stage, "complete") >>
            ELSE IF outcome = "Exception" THEN << Event(n, stage, "failed") >>
            ELSE << >>)

\* a mutant: the except clause reports the failure and main goes on
AfterStageNoReturn(k, outcome) ==
    IF outcome = "BaseException" THEN "end"
    ELSE IF k < Len(Stages) THEN Stages[k + 1] ELSE "banner"

\* where main goes after its k-th stage: to the next stage (the banner after
\* the last one) if the call returned, out of main if it raised
AfterStage(k, outcome) ==
    IF outcome /= "returns" THEN "end"
    ELSE IF k < Len(Stages) THEN Stages[k + 1] ELSE "banner"

\* main is invoked
Main ==
    /\ wf_pc = "idle"
    /\ wf_run < MaxRuns
    /\ wf_run' = wf_run + 1
    /\ wf_pc' = Stages[1]
    /\ UNCHANGED wf_log
    /\ UNCHANGED << mergeVars, extractVars, downloadVars, storageVars,
                    matchVars, tripVars >>

\* the k-th try block of main
RunStage(k, outcome) ==
    /\ wf_pc = Stages[k]
    /\ wf_log' = wf_log \o StageEvents(wf_run, Stages[k], outcome)
    /\ wf_pc' = AfterStage(k, outcome)
    /\ UNCHANGED wf_run
    /\ UNCHANGED << mergeVars, extractVars, downloadVars, storageVars,
                    matchVars, tripVars >>

\* print("Workflow complete!")
Banner ==
    /\ wf_pc = "banner"
    /\ wf_log' = Append(wf_log, Event(wf_run, "workflow", "complete"))
    /\ wf_pc' = "end"
    /\ UNCHANGED wf_run
    /\ UNCHANGED << mergeVars, extractVars, downloadVars, storageVars,
                    matchVars, tripVars >>

\* main is left
Exit ==
    /\ wf_pc = "end"
    /\ wf_pc' = "idle"
    /\ UNCHANGED << wf_run, wf_log >>
    /\ UNCHANGED << mergeVars, extractVars, downloadVars, storageVars,
                    matchVars, tripVars >>

WorkflowInit ==
    /\ wf_pc = "idle"
    /\ wf_run = 0
    /\ wf_log = << >>

WorkflowIdle == WorkflowInit

(***************************************************************************)
(* ----------------- from the Locator to the Page Selector --------------- *)
(* The name download_pdfs saves a document under, as a path and as the     *)
(* characters of its file name, and what extract_charts reads from it.     *)
(* A character is a one-letter string; the word EarningsInsight and the    *)
(* suffix pdf, which hold neither '_' nor '.', are kept whole.             *)
(***************************************************************************)
Chr(d) == << "0", "1", "2", "3", "4", "5", "6", "7", "8", "9" >>[d + 1]

Chars(digits) == [i \in 1..Len(digits) |-> Chr(digits[i])]

IsDigit(c) == c \in { Chr(d) : d \in 0..9 }

Ord(c) == CHOOSE d \in 0..9 : Chr(d) = c

\* outpath: Path.cwd() / "factset_pdfs"
Outpath == << "factset", "_", "pdfs" >>

\* str(outpath / f"EarningsInsight_{current.strftime('%Y%m%d')}_{fmt}.pdf"),
\* from the parts of an entry's filename
PathOf(filename) ==
    [parent |-> Outpath,
     name |-> << filename[1], "_" >> \o Chars(filename[2]) \o << "_" >>
                  \o Chars(filename[3]) \o << ".", "pdf" >>]

\* the position of the last '.' of a name, 0 if it has none
LastDot(name) ==
    IF \E i \in 1..Len(name) : name[i] = "."
    THEN CHOOSE i \in 1..Len(name) :
             name[i] = "." /\ \A j \in (i + 1)..Len(name) : name[j] /= "."
    ELSE 0

\* a mutant: the whole path is taken, the directory included
StemOfWholePath(path) ==
    LET whole == path.parent \o << "/" >> \o path.name
    IN SubSeq(whole, 1, LastDot(whole) - 1)

\* pdf_path.stem: the final component without its suffix
PathStem(path) ==
    IF LastDot(path.name) > 1
    THEN SubSeq(path.name, 1, LastDot(path.name) - 1)
    ELSE path.name

\* s.split('_'): the pieces between the underscores, from position i on, part
\* being the piece collected so far
RECURSIVE Split(_, _, _)
Split(s, i, part) ==
    IF i > Len(s) THEN << part >>
    ELSE IF s[i] = "_" THEN << part >> \o Split(s, i + 1, << >>)
    ELSE Split(s, i + 1, Append(part, s[i]))

\* the number a string of digits spells
RECURSIVE Number(_)
Number(s) ==
    IF s = << >> THEN 0 ELSE 10 * Number(SubSeq(s, 1, Len(s) - 1)) + Ord(s[Len(s)])

\* the directive %m matches the first k characters of s: 1[0-2]|0[1-9]|[1-9]
MatchesMonth(s, k) ==
    /\ Len(s) >= k
    /\ \A i \in 1..k : IsDigit(s[i])
    /\ IF k = 2 THEN Number(SubSeq(s, 1, 2)) \in 1..12 ELSE Number(SubSeq(s, 1, 1)) \in 1..9

\* the directive %d matches the first k characters of s:
\* 3[01]|[12]\d|0[1-9]|[1-9]
MatchesDay(s, k) ==
    /\ Len(s) >= k
    /\ \A i \in 1..k : IsDigit(s[i])
    /\ IF k = 2 THEN Number(SubSeq(s, 1, 2)) \in 1..31 ELSE Number(SubSeq(s, 1, 1)) \in 1..9

\* the lengths the regular expression of '%m%d' gives the month and the day
\* at the start of s: the first of its alternatives that matches
MonthDayLengths(s) ==
    LET fits(m, d) == MatchesMonth(s, m) /\ MatchesDay(SubSeq(s, m + 1, Len(s)), d)
    IN IF fits(2, 2) THEN << 2, 2 >>
       ELSE IF fits(2, 1) THEN << 2, 1 >>
       ELSE IF fits(1, 2) THEN << 1, 2 >>
       ELSE IF fits(1, 1) THEN << 1, 1 >>
       ELSE << 0, 0 >>

NoDate == [error |-> TRUE, date |-> Date(0, 0, 0)]

\* datetime.strptime(s, '%Y%m%d'): four digits of year, then month and day;
\* ValueError if the expression does not match, if characters remain, or if
\* the date does not exist
Strptime(s) ==
    IF Len(s) < 4 \/ \E i \in 1..4 : i <= Len(s) /\ ~IsDigit(s[i]) THEN NoDate
    ELSE LET rest == SubSeq(s, 5, Len(s))
             md == MonthDayLengths(rest)
             y == Number(SubSeq(s, 1, 4))
             m == Number(SubSeq(rest, 1, md[1]))
             d == Number(SubSeq(rest, md[1] + 1, md[1] + md[2]))
         IN IF md = << 0, 0 >> \/ md[1] + md[2] /= Len(rest) \/ y < 1 THEN NoDate
            ELSE IF d > DaysInMonth(y, m) THEN NoDate
            ELSE [error |-> FALSE, date |-> Date(y, m, d)]

\* what extract_charts reads from the path of a document: whether it skips
\* it ("Cannot extract date from filename"), its date and its image
ReadName(path) ==
    LET parts == Split(PathStem(path), 1, << >>)
        date_str == parts[2]
    IN IF IndexError(parts) \/ Strptime(date_str).error
       THEN [skipped |-> TRUE, report_date |-> NoDate.date,
             output_path |-> OutputPath(<< >>)]
       ELSE [skipped |-> FALSE, report_date |-> Strptime(date_str).date,
             output_path |-> OutputPath(date_str)]

\* the dates documents are saved for in the model
SavedDates ==
    { DaysAfter(MinDate, k) : k \in 0..MaxDays }
        \cup { Date(2016, 2, 29), Date(2020, 6, 15) }

\* download_pdfs saves the document of date t under its i-th encoding, and
\* extract_charts reads the name of the file
SaveAndRead(t, i) ==
    LET entry == Entry(Attempt(t, Formats(t)[i], [exception |-> "none", status |-> 200]))
        path == PathOf(entry.filename)
    IN /\ handled' = handled \cup
              { [date |-> t, format |-> entry.format, path |-> path,
                 read |-> ReadName(path)] }
       /\ handled' /= handled
       /\ UNCHANGED << mergeVars, extractVars, downloadVars, storageVars,
                       matchVars, workflowVars >>

TripInit == handled = {}

TripIdle == handled = {}

NextDownload == Call \/ ProbeDate \/ Return

InitDownload ==
    /\ DownloadInit
    /\ MergeIdle /\ ExtractIdle /\ StorageIdle
    /\ MatchIdle /\ WorkflowIdle /\ TripIdle

SpecDownload == InitDownload /\ [][NextDownload]_vars

\* the call runs to its end: one thread, and every fetch ends (timeout=5)
FairDownload == SpecDownload /\ WF_vars(NextDownload)

NextExtract == ProcessPdf \/ CallAgain

\* extract_charts on one document
InitSelect ==
    /\ ExtractInit(SingleDocumentLists)
    /\ MergeIdle /\ DownloadIdle /\ StorageIdle
    /\ MatchIdle /\ WorkflowIdle /\ TripIdle

SpecSelect == InitSelect /\ [][NextExtract]_vars

\* extract_charts on a list of documents
InitExtract ==
    /\ ExtractInit(DocumentLists)
    /\ MergeIdle /\ DownloadIdle /\ StorageIdle
    /\ MatchIdle /\ WorkflowIdle /\ TripIdle

SpecExtract == InitExtract /\ [][NextExtract]_vars

\* the loop runs to its end: one thread, no step waits for another
FairExtract == SpecExtract /\ WF_vars(NextExtract)

InitMerge ==
    /\ MergeInit
    /\ ExtractIdle /\ DownloadIdle /\ StorageIdle
    /\ MatchIdle /\ WorkflowIdle /\ TripIdle

NextMerge == \E images \in Batches : ProcessDirectory(images)

SpecMerge == InitMerge /\ [][NextMerge]_vars

InitStorage ==
    /\ StorageInit
    /\ MergeIdle /\ ExtractIdle /\ DownloadIdle
    /\ MatchIdle /\ WorkflowIdle /\ TripIdle

NextStorage ==
    \/ \E df \in StorageTables, cloud_ok \in BOOLEAN,
          local_outcome \in LocalOutcomes :
           WriteCsv(df, cloud_ok, local_outcome)
    \/ \E read_ok \in BOOLEAN : ReadCsvCall(read_ok)

SpecStorage == InitStorage /\ [][NextStorage]_vars

InitMatch ==
    /\ MatchInit
    /\ MergeIdle /\ ExtractIdle /\ DownloadIdle
    /\ StorageIdle /\ WorkflowIdle /\ TripIdle

NextMatch == MatchImage

SpecMatch == InitMatch /\ [][NextMatch]_vars

InitWorkflow ==
    /\ WorkflowInit
    /\ MergeIdle /\ ExtractIdle /\ DownloadIdle
    /\ StorageIdle /\ MatchIdle /\ TripIdle

NextWorkflow ==
    \/ Main
    \/ \E k \in 1..Len(Stages), outcome \in StageOutcomes : RunStage(k, outcome)
    \/ Banner
    \/ Exit

SpecWorkflow == InitWorkflow /\ [][NextWorkflow]_vars

InitTrip ==
    /\ TripInit
    /\ MergeIdle /\ ExtractIdle /\ DownloadIdle
    /\ StorageIdle /\ MatchIdle /\ WorkflowIdle

NextTrip == \E t \in SavedDates, i \in 1..2 : SaveAndRead(t, i)

SpecTrip == InitTrip /\ [][NextTrip]_vars

(***************************************************************************)
(* Claims about the merge pass, each stated for both tables.               *)
(***************************************************************************)
Overlap(existing, new) == Dates(existing) \cap Dates(new)

RowsFor(df, d) == { i \in 1..Len(df.rows) : df.rows[i].Report_Date = d }

Ascending(df) ==
    \A i \in 1..(Len(df.rows) - 1) :
        df.rows[i].Report_Date < df.rows[i + 1].Report_Date

\* every row of existing is a row of merged, its cells unchanged (and empty
\* in the columns it never had)
RowsPreserved(existing, merged) ==
    \A i \in 1..Len(existing.rows) :
        \E j \in 1..Len(merged.rows) :
            merged.rows[j] = Reindex(existing.rows[i], merged.columns)

\* C1: a pass whose batch shares no report date with the existing table
\* (the empty batch included) keeps every existing row, every cell unchanged.
C1_UntouchedRowsPreserved ==
    pass_done =>
        /\ Overlap(existing_df, new_df) = {}
               => RowsPreserved(existing_df, main_df)
        /\ Overlap(existing_confidence_df, new_confidence_df) = {}
               => RowsPreserved(existing_confidence_df, conf_df)

C1_Witness ==
    /\ pass_done
    /\ Len(existing_df.rows) = 2
    /\ ~Ascending(existing_df)
    /\ Len(new_df.rows) >= 1
    /\ Overlap(existing_df, new_df) = {}
    /\ new_df.columns /= existing_df.columns
    /\ Len(existing_confidence_df.rows) = 2

\* the one row of merged for date d is the batch's row, empty where the
\* batch row has no value
NewRowWins(new, merged, d) ==
    /\ Cardinality(RowsFor(merged, d)) = 1
    /\ \A j \in RowsFor(merged, d) : \A i \in RowsFor(new, d) :
           merged.rows[j] = Reindex(new.rows[i], merged.columns)

\* C2: for a report date held by both the existing table and the batch, the
\* merged table holds exactly one row, equal to the batch's row in every
\* column; nothing of the prior row is kept.
C2_NewRowSupersedes ==
    pass_done =>
        /\ \A d \in Overlap(existing_df, new_df) :
               NewRowWins(new_df, main_df, d)
        /\ \A d \in Overlap(existing_confidence_df, new_confidence_df) :
               NewRowWins(new_confidence_df, conf_df, d)

\* the prior row has a value in a column where the batch row has none, and
\* the confidence rows of the two differ
C2_Witness ==
    /\ pass_done
    /\ \E d \in Overlap(existing_df, new_df) :
         /\ \E i \in RowsFor(existing_df, d) : \E j \in RowsFor(new_df, d) :
              \E c \in existing_df.columns \ new_df.columns :
                  existing_df.rows[i].cells[c] /= NaN
         /\ \E i \in RowsFor(existing_confidence_df, d) :
              \E j \in RowsFor(new_confidence_df, d) :
                  existing_confidence_df.rows[i].cells
                      /= new_confidence_df.rows[j].cells

RowCount(existing, new, merged) ==
    /\ Overlap(existing, new) = {}
           => Len(merged.rows) = Len(existing.rows) + Len(new.rows)
    /\ Cardinality(Overlap(existing, new)) = 1
           => Len(merged.rows) = Len(existing.rows) + Len(new.rows) - 1

\* C3: with disjoint report dates the merged table has |existing| + |new|
\* rows; with exactly one shared report date it has one row less.
C3_RowCount ==
    pass_done =>
        /\ RowCount(existing_df, new_df, main_df)
        /\ RowCount(existing_confidence_df, new_confidence_df, conf_df)

C3_Witness ==
    /\ pass_done
    /\ Cardinality(Overlap(existing_df, new_df)) = 1
    /\ Len(existing_df.rows) = 2
    /\ Len(new_df.rows) = 2
    /\ Len(main_df.rows) = 3

\* C4: after every merge pass the rows of both tables are in ascending
\* report date order.
C4_AlwaysSorted ==
    pass_done => Ascending(main_df) /\ Ascending(conf_df)

\* the rows of a and of b are the same rows, whatever their order
SameRows(a, b) ==
    /\ a.columns = b.columns
    /\ Len(a.rows) = Len(b.rows)
    /\ \A r \in Range(a.rows) \cup Range(b.rows) :
           Cardinality({ i \in 1..Len(a.rows) : a.rows[i] = r })
               = Cardinality({ i \in 1..Len(b.rows) : b.rows[i] = r })

\* a pass that finds no stored table starts from the empty base and completes
StartsFromEmptyBase ==
    /\ ~stored_main.present =>
           /\ pass_done'
           /\ existing_df' = EmptyTable
           /\ stored_main'.present
    /\ ~stored_conf.present =>
           /\ pass_done'
           /\ existing_confidence_df' = EmptyTable
           /\ stored_conf'.present

\* C5: a pass that finds no prior table starts from the empty table with the
\* Report_Date column only, and merging a nonempty batch into an empty table
\* yields exactly the batch's rows (up to row order).
C5_EmptyBase ==
    /\ [][StartsFromEmptyBase]_vars
    /\ [](pass_done =>
            /\ (IsEmpty(existing_df) /\ ~IsEmpty(new_df))
                   => SameRows(main_df, new_df)
            /\ (IsEmpty(existing_confidence_df) /\ ~IsEmpty(new_confidence_df))
                   => SameRows(conf_df, new_confidence_df))

C5_Witness ==
    /\ pass_done
    /\ existing_df = EmptyTable
    /\ existing_confidence_df = EmptyTable
    /\ Len(new_df.rows) = 2
    /\ ~Ascending(new_df)
    /\ stored_main.present

\* C6: the two tables advance in lock-step: holding the same report dates
\* before a pass, they hold the same report dates, in as many rows, after it.
C6_LockStep ==
    (pass_done /\ Dates(existing_df) = Dates(existing_confidence_df)) =>
        /\ Dates(main_df) = Dates(conf_df)
        /\ Len(main_df.rows) = Len(conf_df.rows)

C6_Witness ==
    /\ pass_done
    /\ Dates(existing_df) = Dates(existing_confidence_df)
    /\ Len(existing_df.rows) = 2
    /\ Cardinality(Overlap(existing_df, new_df)) = 1
    /\ Len(new_df.rows) = 2
    /\ Len(conf_df.rows) = 3

(***************************************************************************)
(* Claims about extract_charts.                                            *)
(***************************************************************************)
\* the document the last iteration processed
LastPdf == pdfs[pdf_idx]

\* the chart title itself lies in a word box below the threshold
TitleAtBottom(page) ==
    \E i \in 1..Len(page) :
        page[i].text = "title" /\ page[i].top > BottomThreshold

\* the (1-based) page the image of the last document was rasterized from
RasterizedPage == png[LastPdf.stem[2]].page

\* C7: for the first candidate page p the page rasterized is p+1 if and only
\* if the chart title lies in a word box whose vertical offset is greater
\* than 700 and p is not the last page; otherwise it is p itself.
C7_FooterHeuristic ==
    (pdf_idx > 0 /\ last.kind = "extracted") =>
        LET p == last.matched[1] + 1
            footer == /\ TitleAtBottom(LastPdf.pages[p])
                      /\ p < Len(LastPdf.pages)
        IN RasterizedPage = IF footer THEN p + 1 ELSE p

\* the 0-based numbers of the pages whose text contains a title variant
Candidates(pages) == { n \in 0..(Len(pages) - 1) : HasKeyword(pages[n + 1]) }

Lowest(S) == CHOOSE n \in S : \A m \in S : n <= m

\* C8: pages are examined in ascending order, scanning stops at the
\* lowest-numbered page whose text contains a title variant, no later page is
\* examined, and at most one image is rasterized per document.
C8_FirstMatch ==
    pdf_idx > 0 =>
        LET pages == LastPdf.pages
            n == Len(last.inspected)
        IN /\ \A i \in 1..n : last.inspected[i] = i - 1
           /\ Len(last.rasterized) <= 1
           /\ last.kind = "extracted" =>
                  /\ Candidates(pages) /= {}
                  /\ last.matched = << Lowest(Candidates(pages)) >>
                  /\ n = Lowest(Candidates(pages)) + 1
                  /\ Len(last.rasterized) = 1
           /\ last.kind = "no chart page" =>
                  /\ Candidates(pages) = {}
                  /\ n = Len(pages)
                  /\ last.rasterized = << >>
           /\ last.kind \notin { "extracted", "no chart page", "error" } => n = 0

\* a later page would match too, and is never examined
C8_Witness ==
    /\ pdf_idx > 0
    /\ last.kind = "extracted"
    /\ Cardinality(Candidates(LastPdf.pages)) = 2
    /\ last.inspected = << 0 >>

RECURSIVE IsSubsequence(_, _)
IsSubsequence(a, b) ==
    IF a = << >> THEN TRUE
    ELSE IF b = << >> THEN FALSE
    ELSE IF Head(a) = Head(b) THEN IsSubsequence(Tail(a), Tail(b))
    ELSE IsSubsequence(a, Tail(b))

\* the next document of the list has a name that parses and its image exists
ImageExistsForNext ==
    /\ pdf_idx < Len(pdfs)
    /\ pdfs[pdf_idx + 1].exists
    /\ pdfs[pdf_idx + 1].stem \in Stems
    /\ png[pdfs[pdf_idx + 1].stem[2]] /= NoImage

\* such a document is answered from the directory: its path is appended, the
\* PDF is not opened, no image is written
AnsweredFromCache ==
    ImageExistsForNext =>
        /\ png' = png
        /\ extracted_files' =
               Append(extracted_files, OutputPath(pdfs[pdf_idx + 1].stem[2]))
        /\ ~last'.opened
        /\ last'.rasterized = << >>

SecondRunDone == run = 2 /\ pdf_idx = Len(pdfs)

\* no two documents of the list that exist and have a date in their name
\* carry the same date
DistinctDates ==
    \A i, j \in 1..Len(pdfs) :
        (/\ pdfs[i].exists /\ pdfs[j].exists
         /\ pdfs[i].stem \in Stems /\ pdfs[j].stem \in Stems
         /\ pdfs[i].stem[2] = pdfs[j].stem[2]) => i = j

\* C9 as claimed: an existing image is answered without opening the PDF or
\* rewriting the image, and a second run changes no image and returns the
\* same list of paths as the first.
C9_SecondRunSameList ==
    /\ last.kind = "already exists" => (~last.opened /\ last.rasterized = << >>)
    /\ run = 2 => png = first_run.png
    /\ SecondRunDone => extracted_files = first_run.extracted_files

\* C9 as amended: an existing image is answered without opening the PDF or
\* rewriting the image; a second run changes no image and returns every path
\* of the first run again, in order; the two lists are equal when no two
\* documents carry the same report date.
C9_IdempotentCache ==
    /\ [][AnsweredFromCache]_vars
    /\ [](run = 2 => png = first_run.png)
    /\ [](SecondRunDone =>
            /\ IsSubsequence(first_run.extracted_files, extracted_files)
            /\ DistinctDates => extracted_files = first_run.extracted_files)

\* the second run answers from the cache a document whose image the first
\* run rasterized, and a document the first run found no chart page in
C9_Witness ==
    /\ SecondRunDone
    /\ Len(pdfs) = 2
    /\ first_run.png /= NoFirstRun.png
    /\ Len(first_run.extracted_files) = 1
    /\ Len(extracted_files) = 2
    /\ last.kind = "already exists"

\* the next document of the list
NextPdf == pdfs[pdf_idx + 1]

\* what the loop reports for an item it fails on
FailureKinds ==
    { "file not found", "cannot extract date", "no chart page", "error" }

\* the next document is one the loop fails on: it is missing, its name has no
\* date, it cannot be read or rasterized, or none of its pages matches
FailsOn(pdf_path) ==
    \/ ~pdf_path.exists
    \/ pdf_path.stem \notin Stems
    \/ /\ png[pdf_path.stem[2]] = NoImage
       /\ \/ pdf_path.corrupt /= "no"
          \/ Candidates(pdf_path.pages) = {}

\* a step on such a document reports a failure, appends no path, writes no
\* image and moves on to the next document
FailureIsPerItem ==
    (pdf_idx < Len(pdfs) /\ FailsOn(NextPdf)) =>
        /\ last'.kind \in FailureKinds
        /\ extracted_files' = extracted_files
        /\ png' = png
        /\ pdf_idx' = pdf_idx + 1

AttemptsFor(t) ==
    LET ForDate(a) == a.date = t IN SelectSeq(requests, ForDate)

\* the manifest entries of one date, in order
EntriesFor(t) ==
    LET ForDate(e) == e.date = t IN SelectSeq(found_pdfs, ForDate)

\* the fetch returned a 2xx response and its content was saved
Is2xx(response) ==
    response.exception = "none" /\ response.status \in 200..299

\* the fetch returned status 200 and its content was saved
Is200(response) ==
    response.exception = "none" /\ response.status = 200

\* first-success-wins for the date t, for a given notion of success
FirstSuccessWins(t, Success(_)) ==
    LET att == AttemptsFor(t)
        ent == EntriesFor(t)
    IN /\ Len(att) <= 2
       /\ Len(att) >= 1 => att[1].fmt = Strftime(t, "%m%d%y")
       /\ Len(att) = 2 => att[2].fmt = Strftime(t, "%m%d%Y")
       /\ \A i \in 1..Len(att) :
              Success(att[i].response) =>
                  /\ i = Len(att)
                  /\ Len(ent) = 1
                  /\ ent[1].format = att[i].fmt
       /\ (\A i \in 1..Len(att) : ~Success(att[i].response)) => ent = << >>
       /\ \A i, j \in 1..Len(att) : att[i].fmt = att[j].fmt => i = j
       /\ Len(ent) <= 1

Failed(response) ==
    response.exception \in { "HTTPError", "URLError", "TimeoutError" }

\* the later of start_date and the floor 2016-01-01
Floor == IF Before(start_date, MinDate) THEN MinDate ELSE start_date

\* the dates from end_date down to the floor
InRange(t) == ~Before(t, Floor) /\ ~Before(end_date, t)

\* C14: a failed attempt (non-2xx response, transport error, timeout) adds no
\* manifest entry and aborts nothing: after a failed first encoding the
\* second is tried, after a failed second encoding the next date is probed,
\* and at the end every date of the range was probed.
C14_FailuresPerAttempt ==
    /\ \A i \in 1..Len(requests) :
           Failed(requests[i].response) =>
               LET t == requests[i].date
               IN /\ \A k \in 1..Len(found_pdfs) :
                         ~(/\ found_pdfs[k].date = t
                           /\ found_pdfs[k].format = requests[i].fmt)
                  /\ requests[i].fmt = Strftime(t, "%m%d%y") =>
                         /\ i < Len(requests)
                         /\ requests[i + 1].date = t
                         /\ requests[i + 1].fmt = Strftime(t, "%m%d%Y")
                  /\ (requests[i].fmt = Strftime(t, "%m%d%Y") /\ i < Len(requests))
                         => requests[i + 1].date = PrevDay(t)
    /\ dl_pc = "done" =>
           \A t \in ModelDates : InRange(t) => AttemptsFor(t) /= << >>

\* both encodings of the first date fail, one by a timeout and one by an HTTP
\* error, and the next date is probed and downloaded
C14_Witness ==
    /\ dl_pc = "done"
    /\ Len(requests) >= 3
    /\ requests[1].response.exception = "TimeoutError"
    /\ requests[2].response.exception = "HTTPError"
    /\ requests[3].date = PrevDay(end_date)
    /\ Len(found_pdfs) = 1
    /\ found_pdfs[1].date = PrevDay(end_date)

\* C17: between any two fetch attempts of a call, the two encodings of one
\* date included, there is a sleep of rate_limit.
C17_DelayBetweenFetches ==
    \A i, j \in 1..Len(timeline) :
        (i < j /\ timeline[i] = "urlopen" /\ timeline[j] = "urlopen") =>
            \E k \in (i + 1)..(j - 1) : timeline[k] = "sleep"

\* the order of the probes and of the manifest, and the range probed
DescendingFromEndToFloor ==
    /\ \A i \in 1..Len(requests) : ~Before(requests[i].date, MinDate)
    /\ Len(requests) > 0 => requests[1].date = end_date
    /\ \A i \in 1..(Len(requests) - 1) :
           \/ requests[i + 1].date = requests[i].date
           \/ requests[i + 1].date = PrevDay(requests[i].date)
    /\ \A i, j \in 1..Len(found_pdfs) :
           i < j => Before(found_pdfs[j].date, found_pdfs[i].date)
    /\ dl_pc = "done" =>
           /\ \A t \in ModelDates : AttemptsFor(t) /= << >> <=> InRange(t)
           /\ Before(end_date, Floor) => (requests = << >> /\ found_pdfs = << >>)

C11_ReadPolicy ==
    last_read.called =>
        /\ ~last_read.raised
        /\ last_read.value =
               IF CLOUD_STORAGE_ENABLED /\ ~last_read.cloud_df.is_none
               THEN last_read.cloud_df
               ELSE IF local_file.kind = "csv"
                    THEN PdReadCsv(local_file).value
                    ELSE None

\* the cloud holds a copy but the read of it fails, and the local file cannot
\* be parsed
C11_Witness ==
    /\ last_read.called
    /\ CLOUD_STORAGE_ENABLED
    /\ cloud.kind = "csv"
    /\ last_read.cloud_df.is_none
    /\ local_file = Unparseable
    /\ last_read.value.is_none

\* the position of a tier in the attempts of a call, 0 if it was not attempted
Position(attempts, tier) ==
    IF tier \in Range(attempts)
    THEN CHOOSE i \in 1..Len(attempts) : attempts[i] = tier
    ELSE 0

\* C12: every call of write_csv attempts the local write, whatever the flag
\* and whatever the cloud write did; with cloud storage enabled the cloud
\* write is attempted, before the local one.
C12_WriteMirror ==
    last_write.called =>
        /\ Position(last_write.attempts, "local") > 0
        /\ CLOUD_STORAGE_ENABLED =>
               /\ Position(last_write.attempts, "cloud") > 0
               /\ Position(last_write.attempts, "cloud")
                      < Position(last_write.attempts, "local")

\* the cloud write succeeded and the local file was written all the same
C12_Witness ==
    /\ last_write.called
    /\ CLOUD_STORAGE_ENABLED
    /\ last_write.cloud_ok
    /\ last_write.local_ok
    /\ local_file = ToCsv(last_write.df)
    /\ last_write.df /= EmptyTable

\* every tier the call was meant to write was written
FullSuccess(w) == w.local_ok /\ (CLOUD_STORAGE_ENABLED => w.cloud_ok)

\* some tier was written, another was not
PartialSuccess(w) == ~FullSuccess(w) /\ (w.local_ok \/ w.cloud_ok)

\* C13: what write_csv reports tells a full success from a partial one: no
\* call that wrote one tier only reports what a call that wrote both reports.
C13_PartialVisible ==
    \A a, b \in reported :
        (FullSuccess(a) /\ PartialSuccess(b)) => a.returned /= b.returned

\* the cloud tier holds a copy and the read of it failed all the same
CloudReadFailed ==
    last_read.asked_cloud /\ cloud.kind = "csv" /\ last_read.cloud_df.is_none

\* C20: a read_csv that follows a write_csv that returned True, no other
\* write in between (and no failure of the cloud read itself), returns the
\* table written, whatever the flag and whichever of the two writes failed.
C20_ReadAfterWrite ==
    (last_write.called /\ last_write.returned /\ last_read.called
        /\ ~CloudReadFailed) =>
        /\ ~last_read.raised
        /\ ~last_read.value.is_none
        /\ last_read.value.df = last_write.df

(***************************************************************************)
(* Claims about the coordinate matching.                                   *)
(***************************************************************************)
\* no quarter token is nearer to the value token than q
IsNearest(value, q) ==
    /\ q \in Range(quarter_tokens)
    /\ \A k \in 1..Len(quarter_tokens) :
           Abs((value.left + value.right) - (q.left + q.right))
               <= Abs((value.left + value.right)
                      - (quarter_tokens[k].left + quarter_tokens[k].right))

RunLog(n) == LET OfRun(e) == e.run = n IN SelectSeq(wf_log, OfRun)

\* the number of a stage
StageNumber(stage) == CHOOSE k \in 1..Len(Stages) : Stages[k] = stage

\* the stages of one invocation ran in order, each after the one before had
\* completed, none after a failure, and the banner after all three
StagesInOrder(n) ==
    LET L == RunLog(n)
    IN \A i \in 1..Len(L) :
           /\ (L[i].what = "start" /\ L[i].stage = "download") => i = 1
           /\ (L[i].what = "start" /\ L[i].stage /= "download") =>
                  /\ i > 1
                  /\ L[i - 1] = Event(n, Stages[StageNumber(L[i].stage) - 1],
                                      "complete")
           /\ (L[i].what = "start" /\ i < Len(L)) =>
                  /\ L[i + 1].stage = L[i].stage
                  /\ L[i + 1].what \in { "complete", "failed" }
           /\ L[i].what = "failed" => i = Len(L)
           /\ L[i].stage = "workflow" =>
                  /\ i = Len(L)
                  /\ \A k \in 1..Len(Stages) :
                         \E j \in 1..(i - 1) : L[j] = Event(n, Stages[k], "complete")

\* an invocation that is over and whose last stage raised logged nothing more
NothingAfterRaise(n) ==
    LET L == RunLog(n)
    IN (/\ (n < wf_run \/ wf_pc \in { "end", "idle" })
        /\ Len(L) > 0
        /\ L[Len(L)].what \in { "start", "failed" })
           => \A k \in 1..Len(Stages) :
                  k > StageNumber(L[Len(L)].stage) =>
                      \A j \in 1..Len(L) : L[j].stage /= Stages[k]

\* C19: main runs download, extraction and processing in this order, each
\* stage only after the ones before it finished without raising; after the
\* first stage that raises no later stage runs and the banner is not
\* emitted; the banner is emitted only after all three stages completed.
C19_StageOrder ==
    \A n \in 1..wf_run : StagesInOrder(n) /\ NothingAfterRaise(n)

\* the first invocation fails in the extraction, the second one completes
C19_Witness ==
    /\ wf_run = 2
    /\ wf_pc = "idle"
    /\ RunLog(1) = << Event(1, "download", "start"),
                      Event(1, "download", "complete"),
                      Event(1, "extract", "start"),
                      Event(1, "extract", "failed") >>
    /\ Len(RunLog(2)) = 7
    /\ RunLog(2)[7] = Event(2, "workflow", "complete")

(***************************************************************************)
(* Claims about the names of the saved documents                           *)
(***************************************************************************)
\* the eight decimal digits YYYYMMDD of a date, as characters
Yyyymmdd(t) ==
    LET n == t.y * 10000 + t.m * 100 + t.d
        Pow10(k) == << 1, 10, 100, 1000, 10000, 100000, 1000000, 10000000 >>[k + 1]
    IN [i \in 1..8 |-> Chr((n \div Pow10(8 - i)) % 10)]

\* C21: for every date d and encoding e, the file name the Locator saves
\* (EarningsInsight_<YYYYMMDD of d>_<e>.pdf) is read by the Page Selector as
\* report_date d and is never skipped as unparseable, its chart image is named
\* by the eight digits YYYYMMDD of d, and two documents saved for the same
\* date map to the same image path.
C21_FilenameRoundTrip ==
    \A h \in handled :
        /\ ~h.read.skipped
        /\ h.read.report_date = h.date
        /\ h.read.output_path = << Yyyymmdd(h.date), ".png" >>
        /\ \A g \in handled :
               g.date = h.date => g.read.output_path = h.read.output_path

\* the leap day saved under both encodings and read twice, into one image path
C21_Witness ==
    \E h \in handled, g \in handled :
        /\ h.date = Date(2016, 2, 29) /\ g.date = h.date
        /\ h.format = Formats(h.date)[1] /\ g.format = Formats(g.date)[2]
        /\ h.path /= g.path
        /\ ~h.read.skipped /\ ~g.read.skipped
        /\ h.read.report_date = Date(2016, 2, 29)
        /\ g.read.output_path = h.read.output_path

====
